---- MODULE Spec2Model ----
(***************************************************************************)
(* Model of the usdDraco attribute translation layer:                      *)
(*   UsdDracoExportAttribute<ArrayT>  (exportAttribute.h)                  *)
(*   UsdDracoImportAttribute<ArrayT>  (importAttribute.h)                  *)
(* A scene mesh carries one entry per attribute slot; export attributes    *)
(* read the scene and emit point attributes into a codec mesh; import      *)
(* attributes look the point attributes up again and write a scene mesh.   *)
(***************************************************************************)
EXTENDS Integers, Sequences, FiniteSets, TLC

\* ------------------------------------------------------------------ bounds
MaxPositions == 2      \* numPositions passed to GetFromMesh ranges over 1..MaxPositions
MaxValues == 2         \* longest scene value array / GetFromRange size
MaxCalls == 3          \* calls the lifecycle caller makes on one export attribute
MaxAttributes == 2     \* point attributes one codec mesh may hold
MaxIndices == 1        \* largest size passed to ResizeIndices

Slots == {1, 2}
Points == 0 .. 2       \* codec points of one triangle
NoValue == -1          \* draco::kInvalidAttributeValueIndex, an unset point-map entry

\* ------------------------------------------------------------ descriptors
\* UsdDracoAttributeDescriptor: the fields the two attribute classes read.
\* arrayT is the template argument the attribute is instantiated with.
Descriptors ==
    { [name |-> "points", attributeType |-> "POSITION", isPrimvar |-> FALSE,
       metadataName |-> "", valueType |-> "point3f[]", arrayT |-> "Vec"],
      [name |-> "primvars:normals", attributeType |-> "NORMAL", isPrimvar |-> TRUE,
       metadataName |-> "", valueType |-> "normal3f[]", arrayT |-> "Vec"],
      [name |-> "primvars:custom", attributeType |-> "GENERIC", isPrimvar |-> TRUE,
       metadataName |-> "custom", valueType |-> "float3[]", arrayT |-> "Vec"],
      [name |-> "holeFaces", attributeType |-> "GENERIC", isPrimvar |-> FALSE,
       metadataName |-> "hole_faces", valueType |-> "int[]", arrayT |-> "Int"],
      [name |-> "pointOrder", attributeType |-> "GENERIC", isPrimvar |-> FALSE,
       metadataName |-> "point_order", valueType |-> "int[]", arrayT |-> "Int"] }

Interpolations == {"constant", "vertex", "faceVarying"}

\* ------------------------------------------------------------------ state
VARIABLES
    descriptor,     \* slot -> the descriptor both attribute objects were built with
    usdMesh,        \* slot -> the scene mesh's primvar/attribute of that name
    numPositions,   \* number of scene points, the second argument of GetFromMesh
    exportAttr,     \* slot -> UsdDracoExportAttribute members
    calls,          \* slot -> calls made on the export attribute since construction
    dracoMesh,      \* the codec mesh: its point attributes, in attribute-id order
    phase,          \* "export" while the codec mesh is built, "import" once it is read
    importAttr,     \* slot -> UsdDracoImportAttribute members
    usdOut,         \* slot -> what import SetToMesh created on the scene mesh
    fault,          \* undefined behaviour executed: "none", "null" or "oob"
    driver,         \* the caller: "lifecycle" (one attribute, any call order),
                    \* "pair" (two attributes staged into one codec mesh) or
                    \* "reuse" (one attribute populated and emitted for a first
                    \* sub-mesh, then any call order)
    emitted         \* slot -> a SetToMesh found _values non-empty since the
                    \* export attribute was constructed or last cleared

vars == <<descriptor, usdMesh, numPositions, exportAttr, calls, dracoMesh,
          phase, importAttr, usdOut, fault, driver, emitted>>

\* A scene value array of length n; elements are distinct so that a
\* permutation or a shift of the array is observable.
SceneValues(n) == [i \in 1 .. n |-> 100 + i]

\* Explicit primvar index arrays offered by the scene (empty = none authored).
SceneIndices == { <<>>, <<1, 0, 1>> }

AbsentEntry == [present |-> FALSE, interpolation |-> "vertex",
                values |-> <<>>, indices |-> <<>>]

SceneEntries(d) ==
    IF d.isPrimvar
    THEN {AbsentEntry} \cup
         { [present |-> TRUE, interpolation |-> ip, values |-> SceneValues(n),
            indices |-> ix] :
           ip \in Interpolations, n \in 0 .. MaxValues, ix \in SceneIndices }
    ELSE {AbsentEntry} \cup
         { [present |-> TRUE, interpolation |-> "vertex",
            values |-> SceneValues(n), indices |-> <<>>] : n \in 0 .. MaxValues }

\* UsdDracoExportAttribute constructor.
NewExportAttribute ==
    [values |-> <<>>, indices |-> <<>>, usePositionIndex |-> FALSE,
     pointAttribute |-> 0]

\* UsdDracoImportAttribute before its constructor has run on the codec mesh.
\* writes counts, per value slot, the stores PopulateValuesWithOrder made
\* into it; resized is the size last passed to ResizeIndices; done is the
\* set of populating and emitting member functions called on the object.
NoImportAttribute ==
    [constructed |-> FALSE, pointAttribute |-> 0, values |-> <<>>, indices |-> <<>>,
     writes |-> <<>>, resized |-> 0, done |-> {}]

NoPrim == [kind |-> "none"]

\* _MakeRange: resize to size and fill with 0, 1, 2, ...
MakeRange(size) == [i \in 1 .. size |-> i - 1]

\* ------------------------------------------------------------- codec mesh
\* draco::Mesh::AddAttribute(att, false, numValues) followed by the value
\* loop of SetToMesh: a point attribute with its values in order, an explicit
\* point map with every entry unset, and the metadata name ("" = no metadata).
NewPointAttribute(d, values) ==
    [attributeType |-> d.attributeType,
     values |-> [i \in 1 .. Len(values) |-> values[i]],
     metadataName |-> d.metadataName,
     pointMap |-> [p \in Points |-> NoValue]]

\* draco::PointAttribute::SetPointMapEntry on attribute id of the mesh.
WithPointMapEntry(mesh, id, pi, entryIndex) ==
    [mesh EXCEPT !.attributes[id].pointMap[pi] = entryIndex]

\* --------------------------------------------------- UsdDracoExportAttribute
\* GetFromMesh without the value-count test before _MakeRange.
GetFromMesh_NoCountTest(attr, d, e, numPos) ==
    IF d.isPrimvar /\ e.present
    THEN LET upi == (e.interpolation = "vertex")
             ix == IF e.indices # <<>> THEN e.indices ELSE attr.indices
         IN  [attr EXCEPT
                !.values = e.values,
                !.usePositionIndex = IF e.interpolation = "constant" THEN @ ELSE upi,
                !.indices = IF e.interpolation # "constant" /\ ix = <<>> /\ upi
                            THEN MakeRange(numPos) ELSE ix]
    ELSE IF ~d.isPrimvar /\ e.present THEN [attr EXCEPT !.values = e.values] ELSE attr

\* GetFromMesh: the members after reading scene entry e under descriptor d.
GetFromMesh(attr, d, e, numPos) ==
    IF d.isPrimvar
    THEN IF ~e.present
         THEN attr
         ELSE LET read == [attr EXCEPT
                              !.values = e.values,
                              !.indices = IF e.indices # <<>> THEN e.indices ELSE @]
              IN  IF e.interpolation = "constant"
                  THEN read
                  ELSE LET upi == (e.interpolation = "vertex")
                       IN  [read EXCEPT
                              !.usePositionIndex = upi,
                              !.indices =
                                  IF @ = <<>> /\ upi /\ Len(read.values) = numPos
                                  THEN MakeRange(numPos) ELSE @]
    ELSE IF e.present THEN [attr EXCEPT !.values = e.values] ELSE attr

\* GetFromRange: fills the value array with 0 .. size-1.
GetFromRange(attr, size) == [attr EXCEPT !.values = MakeRange(size)]

\* SetToMesh without the early return on an empty value array.
SetToMesh_NoEmptyTest(attr, d, mesh) ==
    << [attr EXCEPT !.pointAttribute = Len(mesh.attributes) + 1],
       [mesh EXCEPT !.attributes = Append(@, NewPointAttribute(d, attr.values))] >>

\* SetToMesh: <<members, codec mesh>> after emitting the attribute.
SetToMesh(attr, d, mesh) ==
    IF attr.values = <<>>
    THEN <<attr, mesh>>
    ELSE LET attrId == Len(mesh.attributes) + 1
         IN  << [attr EXCEPT !.pointAttribute = attrId],
                [mesh EXCEPT !.attributes =
                     Append(@, NewPointAttribute(d, attr.values))] >>

\* Clear: back to the constructor's state.
\* Clear that leaves _pointAttribute as it was.
Clear_KeepsPointAttribute(attr) ==
    [attr EXCEPT !.values = <<>>, !.indices = <<>>, !.usePositionIndex = FALSE]

Clear(attr) ==
    [attr EXCEPT !.values = <<>>, !.indices = <<>>,
                 !.usePositionIndex = FALSE, !.pointAttribute = 0]

HasPointAttribute(attr) == attr.pointAttribute # 0

\* What the caller may do next on the export attribute of slot s.  The
\* lifecycle caller makes any MaxCalls calls on slot 1; the pair caller stages
\* both slots: populate, emit, then one point-map entry per point, slot 1
\* before slot 2 for each point; the reuse caller populates and emits slot 1
\* for a first sub-mesh and then makes any calls on it, MaxCalls + 1 in all.
MayCall(s) ==
    /\ phase = "export" /\ fault = "none" /\ s = 1
    /\ \/ driver = "lifecycle" /\ Len(calls[s]) < MaxCalls
       \/ driver = "reuse" /\ Len(calls[s]) >= 2 /\ Len(calls[s]) <= MaxCalls
MayPopulate(s) ==
    \/ MayCall(s)
    \/ /\ phase = "export" /\ fault = "none"
       /\ driver = "pair" \/ (driver = "reuse" /\ s = 1)
       /\ calls[s] = <<>>
MayEmit(s) ==
    \/ MayCall(s)
    \/ /\ phase = "export" /\ fault = "none"
       /\ driver = "pair" \/ (driver = "reuse" /\ s = 1)
       /\ Len(calls[s]) = 1
MayMap(s, pi) ==
    \/ MayCall(s)
    \/ /\ phase = "export" /\ fault = "none"
       /\ driver = "pair"
       /\ \A r \in Slots : Len(calls[r]) >= 2
       /\ Len(calls[s]) = 2 + pi
       /\ s = 2 => Len(calls[1]) > 2 + pi

Called(s, op) == calls' = [calls EXCEPT ![s] = Append(@, op)]

Export_GetFromMesh(s) ==
    /\ MayPopulate(s)
    /\ driver = "pair" => s = 1
    /\ exportAttr' = [exportAttr EXCEPT
                         ![s] = GetFromMesh(@, descriptor[s], usdMesh[s], numPositions)]
    /\ Called(s, "GetFromMesh")
    /\ UNCHANGED <<descriptor, usdMesh, numPositions, dracoMesh, phase,
                   importAttr, usdOut, fault, driver, emitted>>

Export_GetFromRange(s) ==
    /\ MayPopulate(s)
    /\ descriptor[s].arrayT = "Int"
    /\ \E size \in 0 .. MaxValues :
          exportAttr' = [exportAttr EXCEPT ![s] = GetFromRange(@, size)]
    /\ Called(s, "GetFromRange")
    /\ UNCHANGED <<descriptor, usdMesh, numPositions, dracoMesh, phase,
                   importAttr, usdOut, fault, driver, emitted>>

Export_SetToMesh(s) ==
    /\ MayEmit(s)
    /\ exportAttr[s].values = <<>> \/ Len(dracoMesh.attributes) < MaxAttributes
    /\ LET after == SetToMesh(exportAttr[s], descriptor[s], dracoMesh)
       IN  /\ exportAttr' = [exportAttr EXCEPT ![s] = after[1]]
           /\ dracoMesh' = after[2]
    /\ Called(s, "SetToMesh")
    /\ emitted' = [emitted EXCEPT ![s] = @ \/ exportAttr[s].values # <<>>]
    /\ UNCHANGED <<descriptor, usdMesh, numPositions, phase,
                   importAttr, usdOut, fault, driver>>

\* SetPointMapEntry(pointIndex, entryIndex)
Export_SetPointMapEntry(s) ==
    \E pi \in Points, entryIndex \in 0 .. MaxValues - 1 :
       /\ MayMap(s, pi)
       /\ driver = "pair" => entryIndex = 0 \/ entryIndex < Len(exportAttr[s].values)
       /\ dracoMesh' = IF HasPointAttribute(exportAttr[s])
                       THEN WithPointMapEntry(dracoMesh, exportAttr[s].pointAttribute,
                                              pi, entryIndex)
                       ELSE dracoMesh
       /\ Called(s, "SetPointMapEntry")
       /\ UNCHANGED <<descriptor, usdMesh, numPositions, exportAttr, phase,
                      importAttr, usdOut, fault, driver, emitted>>

\* SetPointMapEntry(pointIndex, positionIndex, cornerIndex).  Reading
\* _indices[index] past the end of the array is undefined: the entry stored
\* is then any value, or the program stops.
Export_SetPointMapEntryByCorner(s) ==
    \E pi \in Points, positionIndex \in 0 .. numPositions - 1, cornerIndex \in Points :
       /\ MayCall(s)
       /\ Called(s, "SetPointMapEntry")
       /\ LET attr == exportAttr[s]
              index == IF attr.usePositionIndex THEN positionIndex ELSE cornerIndex
          IN  IF ~HasPointAttribute(attr)
              THEN UNCHANGED <<dracoMesh, fault>>
              ELSE IF index < Len(attr.indices)
                   THEN /\ dracoMesh' = WithPointMapEntry(dracoMesh, attr.pointAttribute,
                                                          pi, attr.indices[index + 1])
                        /\ fault' = fault
                   ELSE /\ fault' = "oob"
                        /\ \/ dracoMesh' = dracoMesh
                           \/ \E garbage \in {NoValue, MaxValues} :
                                 dracoMesh' = WithPointMapEntry(
                                     dracoMesh, attr.pointAttribute, pi, garbage)
       /\ UNCHANGED <<descriptor, usdMesh, numPositions, exportAttr, phase,
                      importAttr, usdOut, driver, emitted>>

Export_Clear(s) ==
    /\ MayCall(s)
    /\ exportAttr' = [exportAttr EXCEPT ![s] = Clear(@)]
    /\ Called(s, "Clear")
    /\ emitted' = [emitted EXCEPT ![s] = FALSE]
    /\ UNCHANGED <<descriptor, usdMesh, numPositions, dracoMesh, phase,
                   importAttr, usdOut, fault, driver>>

\* The reuse caller turns to the next sub-mesh after a Clear: the scene mesh
\* its next GetFromMesh call receives carries other data for the attribute
\* (an attribute the scene lacks is lacking on every sub-mesh).
Export_NextSubMesh(s) ==
    /\ MayCall(s)
    /\ driver = "reuse"
    /\ calls[s][Len(calls[s])] = "Clear"
    /\ \E e \in SceneEntries(descriptor[s]) \ {usdMesh[s]} :
          /\ e.present = usdMesh[s].present
          /\ usdMesh' = [usdMesh EXCEPT ![s] = e]
    /\ UNCHANGED <<descriptor, numPositions, exportAttr, calls, dracoMesh, phase,
                   importAttr, usdOut, fault, driver, emitted>>

\* --------------------------------------------------- UsdDracoImportAttribute
\* The least of the matching attribute ids, or 0 when none matches.
FirstAttributeId(ids) ==
    IF ids = {} THEN 0 ELSE CHOOSE i \in ids : \A j \in ids : i <= j

\* draco::Mesh::GetNamedAttributeId(type)
GetNamedAttributeId(mesh, type) ==
    FirstAttributeId({i \in 1 .. Len(mesh.attributes) :
                         mesh.attributes[i].attributeType = type})

\* draco::Mesh::GetAttributeIdByMetadataEntry(METADATA_NAME_KEY, name)
GetAttributeIdByMetadataEntry(mesh, name) ==
    FirstAttributeId({i \in 1 .. Len(mesh.attributes) :
                         mesh.attributes[i].metadataName = name})

\* _GetFromMesh that looks the attribute up by its type alone.
GetFromMeshById_TypeOnly(d, mesh) == GetNamedAttributeId(mesh, d.attributeType)

\* _GetFromMesh: the id of the located point attribute, 0 for nullptr.
GetFromMeshById(d, mesh) ==
    IF d.metadataName = ""
    THEN GetNamedAttributeId(mesh, d.attributeType)
    ELSE GetAttributeIdByMetadataEntry(mesh, d.metadataName)

\* The constructor.
NewImportAttribute(d, mesh) ==
    [NoImportAttribute EXCEPT !.constructed = TRUE,
                              !.pointAttribute = GetFromMeshById(d, mesh)]

\* VtArray::resize: keeps the prefix, value-initialises the rest to 0.
Resize(array, size) ==
    [i \in 1 .. size |-> IF i <= Len(array) THEN array[i] ELSE 0]

\* draco::PointAttribute::mapped_index(pi) is inside the attribute's buffer.
MappedInBounds(pa, pi) ==
    pa.pointMap[pi] >= 0 /\ pa.pointMap[pi] < Len(pa.values)

\* PopulateValues: the members afterwards.
PopulateValues(attr, mesh) ==
    IF attr.pointAttribute = 0
    THEN attr
    ELSE LET pa == mesh.attributes[attr.pointAttribute]
             numValues == Len(pa.values)
         IN  [attr EXCEPT !.values = [i \in 1 .. numValues |-> pa.values[i]]]

\* GetMappedValue(pi): the integer the located attribute maps the point to.
GetMappedValue(attr, pi, mesh) ==
    LET pa == mesh.attributes[attr.pointAttribute]
    IN  pa.values[pa.pointMap[pi] + 1]

\* The fault a call of GetMappedValue(pi) runs into: _pointAttribute is
\* dereferenced unconditionally, and the mapped entry is read unchecked.
GetMappedValueFault(attr, pi, mesh) ==
    IF attr.pointAttribute = 0 THEN "null"
    ELSE IF MappedInBounds(mesh.attributes[attr.pointAttribute], pi) THEN "none"
    ELSE "oob"

\* The face loop of PopulateValuesWithOrder from corner k on.  st carries the
\* value array, the populated markers, the store counts and the fault met;
\* the loop stops at the first undefined access.  pa is the codec attribute
\* the values are read from, order the import attribute giving the slots.
RECURSIVE OrderLoop(_, _, _, _, _, _)
OrderLoop(st, k, corners, pa, order, mesh) ==
    IF k > Len(corners) \/ st.fault # "none"
    THEN st
    ELSE LET pi == corners[k]
         IN  IF GetMappedValueFault(order, pi, mesh) # "none"
             THEN [st EXCEPT !.fault = GetMappedValueFault(order, pi, mesh)]
             ELSE LET origIndex == GetMappedValue(order, pi, mesh)
                  IN  IF origIndex < 0 \/ origIndex >= Len(st.values)
                      THEN [st EXCEPT !.fault = "oob"]
                      ELSE IF st.populated[origIndex + 1]
                      THEN OrderLoop(st, k + 1, corners, pa, order, mesh)
                      ELSE IF ~MappedInBounds(pa, pi)
                      THEN [st EXCEPT !.fault = "oob"]
                      ELSE OrderLoop(
                               [st EXCEPT
                                  !.values[origIndex + 1] = pa.values[pa.pointMap[pi] + 1],
                                  !.populated[origIndex + 1] = TRUE,
                                  !.writes[origIndex + 1] = @ + 1],
                               k + 1, corners, pa, order, mesh)

\* The corners of faces 0 .. numFaces-1, in the order the two loops visit them.
FaceCorners(mesh, numFaces) ==
    [k \in 1 .. 3 * numFaces |-> mesh.faces[((k - 1) \div 3) + 1][((k - 1) % 3) + 1]]

\* PopulateValuesWithOrder: [values, writes, fault] afterwards.
PopulateValuesWithOrder(attr, orderAttr, numFaces, mesh) ==
    IF attr.pointAttribute = 0
    THEN [values |-> attr.values, writes |-> attr.writes, fault |-> "none"]
    ELSE LET pa == mesh.attributes[attr.pointAttribute]
             numValues == Len(pa.values)
             start == [values |-> Resize(attr.values, numValues),
                       populated |-> [i \in 1 .. numValues |-> FALSE],
                       writes |-> [i \in 1 .. numValues |-> 0],
                       fault |-> "none"]
             end == OrderLoop(start, 1, FaceCorners(mesh, numFaces), pa, orderAttr, mesh)
         IN  [values |-> end.values, writes |-> end.writes, fault |-> end.fault]

\* ResizeIndices
ResizeIndices(attr, size) ==
    IF attr.pointAttribute = 0 THEN attr
    ELSE [attr EXCEPT !.indices = Resize(@, size)]

\* SetIndex: the store is inside the index array.
SetIndexInBounds(attr, at) == at < Len(attr.indices)

SetIndex(attr, at, index) == [attr EXCEPT !.indices[at + 1] = index]

\* SetToMesh that leaves the created primvar's interpolation at its default.
ImportSetToMesh_NoInterpolation(attr, d, prim) ==
    IF attr.pointAttribute = 0
    THEN prim
    ELSE [kind |-> IF d.isPrimvar THEN "primvar" ELSE "attribute",
          name |-> d.name, valueType |-> d.valueType, values |-> attr.values,
          indices |-> IF d.isPrimvar THEN attr.indices ELSE <<>>,
          hasIndices |-> d.isPrimvar,
          interpolation |-> IF d.isPrimvar THEN "constant" ELSE ""]

\* SetToMesh: what the scene mesh holds for the descriptor afterwards.
ImportSetToMesh(attr, d, prim) ==
    IF attr.pointAttribute = 0
    THEN prim
    ELSE IF d.isPrimvar
         THEN [kind |-> "primvar", name |-> d.name, valueType |-> d.valueType,
               values |-> attr.values, indices |-> attr.indices,
               hasIndices |-> TRUE, interpolation |-> "faceVarying"]
         ELSE [kind |-> "attribute", name |-> d.name, valueType |-> d.valueType,
               values |-> attr.values, indices |-> <<>>,
               hasIndices |-> FALSE, interpolation |-> ""]

\* What the caller may do next on the import attribute of slot s: it is
\* constructed, and it has not yet been consumed by SetToMesh.  The pair
\* caller only reconstructs the values of slot 1 in the order of slot 2.
MayImport(s) ==
    /\ phase = "import" /\ fault = "none"
    /\ importAttr[s].constructed
    /\ "SetToMesh" \notin importAttr[s].done
    /\ s = 1

MayImportAny(s) == MayImport(s) /\ driver = "lifecycle"

Did(attr, op) == [attr EXCEPT !.done = @ \cup {op}]

\* UsdDracoImportTranslator's constructor: every import attribute is
\* constructed on the finished codec mesh.
Import_Construct ==
    /\ phase = "export" /\ fault = "none"
    /\ IF driver = "pair"
       THEN \A s \in Slots : Len(calls[s]) = 2 + Cardinality(Points)
       ELSE /\ driver = "lifecycle"
            /\ Len(calls[1]) >= 2
            /\ calls[1][1] \in {"GetFromMesh", "GetFromRange"}
            /\ calls[1][2] = "SetToMesh"
            /\ \A i \in 3 .. Len(calls[1]) : calls[1][i] = "SetPointMapEntry"
    /\ phase' = "import"
    /\ importAttr' = [s \in Slots |-> NewImportAttribute(descriptor[s], dracoMesh)]
    /\ UNCHANGED <<descriptor, usdMesh, numPositions, exportAttr, calls, dracoMesh,
                   usdOut, fault, driver, emitted>>

Import_PopulateValues(s) ==
    /\ MayImportAny(s)
    /\ descriptor[s].arrayT = "Vec"
    /\ importAttr' = [importAttr EXCEPT
                         ![s] = Did(PopulateValues(@, dracoMesh), "PopulateValues")]
    /\ UNCHANGED <<descriptor, usdMesh, numPositions, exportAttr, calls, dracoMesh,
                   phase, usdOut, fault, driver, emitted>>

Import_PopulateValuesWithOrder(s, o) ==
    /\ MayImport(s)
    /\ descriptor[s].arrayT = "Vec"
    /\ o # s /\ descriptor[o].arrayT = "Int" /\ importAttr[o].constructed
    /\ driver = "pair" => importAttr[s].done = {}
    /\ LET numFaces == Len(dracoMesh.faces)
           after == PopulateValuesWithOrder(importAttr[s], importAttr[o],
                                            numFaces, dracoMesh)
       IN  /\ importAttr' = [importAttr EXCEPT
                               ![s] = Did([@ EXCEPT !.values = after.values,
                                                    !.writes = after.writes],
                                          "PopulateValuesWithOrder")]
           /\ fault' = after.fault
    /\ UNCHANGED <<descriptor, usdMesh, numPositions, exportAttr, calls, dracoMesh,
                   phase, usdOut, driver, emitted>>

\* The fault a call of GetMappedIndex(pi) runs into.
GetMappedIndexFault(attr) ==
    IF attr.pointAttribute = 0 THEN "null" ELSE "none"

\* The two queries are const: a call changes nothing but may fault.
Import_GetMappedValue(s) ==
    \E pi \in Points :
       /\ MayImportAny(s)
       /\ descriptor[s].arrayT = "Int"
       /\ fault' = GetMappedValueFault(importAttr[s], pi, dracoMesh)
       /\ UNCHANGED <<descriptor, usdMesh, numPositions, exportAttr, calls, dracoMesh,
                      phase, importAttr, usdOut, driver, emitted>>

Import_GetMappedIndex(s) ==
    \E pi \in Points :
       /\ MayImportAny(s)
       /\ fault' = GetMappedIndexFault(importAttr[s])
       /\ UNCHANGED <<descriptor, usdMesh, numPositions, exportAttr, calls, dracoMesh,
                      phase, importAttr, usdOut, driver, emitted>>

Import_ResizeIndices(s) ==
    \E size \in 0 .. MaxIndices :
       /\ MayImportAny(s)
       /\ importAttr' = [importAttr EXCEPT
                            ![s] = [ResizeIndices(@, size) EXCEPT !.resized = size]]
       /\ UNCHANGED <<descriptor, usdMesh, numPositions, exportAttr, calls, dracoMesh,
                      phase, usdOut, fault, driver, emitted>>

\* SetIndex: _indices[at] = index, with no check of _pointAttribute or of at.
Import_SetIndex(s) ==
    \E at \in 0 .. MaxIndices - 1, index \in {0, MaxValues} :
       /\ MayImportAny(s)
       /\ IF SetIndexInBounds(importAttr[s], at)
          THEN /\ importAttr' = [importAttr EXCEPT ![s] = SetIndex(@, at, index)]
               /\ fault' = fault
          ELSE /\ importAttr' = importAttr
               /\ fault' = "oob"
       /\ UNCHANGED <<descriptor, usdMesh, numPositions, exportAttr, calls, dracoMesh,
                      phase, usdOut, driver, emitted>>

Import_SetToMesh(s) ==
    /\ MayImportAny(s)
    /\ usdOut' = [usdOut EXCEPT ![s] = ImportSetToMesh(importAttr[s], descriptor[s], @)]
    /\ importAttr' = [importAttr EXCEPT ![s] = Did(@, "SetToMesh")]
    /\ UNCHANGED <<descriptor, usdMesh, numPositions, exportAttr, calls, dracoMesh,
                   phase, fault, driver, emitted>>

\* ------------------------------------------------------------ specifications
IntDescriptors == {d \in Descriptors : d.arrayT = "Int"}
VecDescriptors == {d \in Descriptors : d.arrayT = "Vec"}

InitObjects ==
    /\ exportAttr = [s \in Slots |-> NewExportAttribute]
    /\ calls = [s \in Slots |-> <<>>]
    /\ dracoMesh = [attributes |-> <<>>, faces |-> << <<0, 1, 2>> >>]
    /\ phase = "export"
    /\ importAttr = [s \in Slots |-> NoImportAttribute]
    /\ usdOut = [s \in Slots |-> NoPrim]
    /\ fault = "none"
    /\ emitted = [s \in Slots |-> FALSE]

\* One attribute of any descriptor over any scene entry; the second slot is a
\* marker attribute the scene does not carry.
InitLifecycle ==
    /\ driver = "lifecycle"
    /\ \E d1 \in Descriptors, d2 \in IntDescriptors :
          /\ d1.name \in {"points", "primvars:normals", "holeFaces"}
          /\ d2.name = "pointOrder"
          /\ descriptor = <<d1, d2>>
          /\ \E e \in SceneEntries(d1) : usdMesh = <<e, AbsentEntry>>
    /\ numPositions \in 1 .. MaxPositions
    /\ InitObjects

\* Two attributes staged into one codec mesh: a vector attribute read from
\* the scene and an integer marker attribute filled by GetFromRange.
InitPair ==
    /\ driver = "pair"
    /\ \E d1 \in VecDescriptors, d2 \in IntDescriptors :
          /\ d1.name \in {"points", "primvars:custom"}
          /\ d2.name = "pointOrder"
          /\ descriptor = <<d1, d2>>
          /\ \E n \in 0 .. MaxValues :
                usdMesh = << [present |-> n > 0, interpolation |-> "faceVarying",
                              values |-> SceneValues(n), indices |-> <<>>],
                             AbsentEntry >>
    /\ numPositions = MaxPositions
    /\ InitObjects

\* One attribute reused across sub-meshes: a primvar or a plain attribute
\* over any scene entry.
InitReuse ==
    /\ driver = "reuse"
    /\ \E d1 \in Descriptors, d2 \in IntDescriptors :
          /\ d1.name \in {"primvars:normals", "holeFaces"}
          /\ d2.name = "pointOrder"
          /\ descriptor = <<d1, d2>>
          /\ \E e \in SceneEntries(d1) : usdMesh = <<e, AbsentEntry>>
    /\ numPositions = MaxPositions
    /\ InitObjects

Init == InitLifecycle \/ InitPair \/ InitReuse

Next ==
    \/ \E s \in Slots : Export_GetFromMesh(s)
    \/ \E s \in Slots : Export_GetFromRange(s)
    \/ \E s \in Slots : Export_SetToMesh(s)
    \/ \E s \in Slots : Export_SetPointMapEntry(s)
    \/ \E s \in Slots : Export_SetPointMapEntryByCorner(s)
    \/ \E s \in Slots : Export_Clear(s)
    \/ \E s \in Slots : Export_NextSubMesh(s)
    \/ Import_Construct
    \/ \E s \in Slots : Import_PopulateValues(s)
    \/ \E s, o \in Slots : Import_PopulateValuesWithOrder(s, o)
    \/ \E s \in Slots : Import_GetMappedValue(s)
    \/ \E s \in Slots : Import_GetMappedIndex(s)
    \/ \E s \in Slots : Import_ResizeIndices(s)
    \/ \E s \in Slots : Import_SetIndex(s)
    \/ \E s \in Slots : Import_SetToMesh(s)

Spec == Init /\ [][Next]_vars

\* ------------------------------------------------------------------ claims
\* The calls made on the export attribute of slot s since it was constructed
\* or last cleared.
RECURSIVE SinceClear(_)
SinceClear(log) ==
    IF log = <<>> THEN <<>>
    ELSE IF log[Len(log)] = "Clear" THEN <<>>
    ELSE Append(SinceClear(SubSeq(log, 1, Len(log) - 1)), log[Len(log)])

Occurs(op, log) == \E i \in 1 .. Len(log) : log[i] = op

\* C1: a primvar with constant interpolation, whatever its value array, has
\* no point attribute after GetFromMesh followed by SetToMesh, and the codec
\* mesh gained no attribute.
C1_ConstantNotExported ==
    \A s \in Slots :
       ( /\ descriptor[s].isPrimvar
         /\ usdMesh[s].present
         /\ usdMesh[s].interpolation = "constant"
         /\ calls[s] = <<"GetFromMesh", "SetToMesh">> )
       => /\ ~HasPointAttribute(exportAttr[s])
          /\ dracoMesh.attributes = <<>>

\* C2: after GetFromMesh on a primvar, a vertex primvar without explicit
\* indices has the identity index array 0 .. numPositions-1 when its value
\* count equals numPositions and an empty one otherwise; explicit indices
\* are kept as they are; a non-vertex primvar without explicit indices has
\* none.
C2_ImplicitIndexing ==
    \A s \in Slots :
       ( /\ descriptor[s].isPrimvar
         /\ usdMesh[s].present
         /\ Occurs("GetFromMesh", SinceClear(calls[s])) )
       => LET e == usdMesh[s]
              ix == exportAttr[s].indices
          IN  /\ (e.indices = <<>> /\ e.interpolation = "vertex"
                   /\ Len(e.values) = numPositions)
                  => /\ Len(ix) = numPositions
                     /\ \A i \in 1 .. Len(ix) : ix[i] = i - 1
              /\ (e.indices = <<>> /\ e.interpolation = "vertex"
                   /\ Len(e.values) # numPositions)
                  => ix = <<>>
              /\ e.indices # <<>> => ix = e.indices
              /\ (e.indices = <<>> /\ e.interpolation # "vertex") => ix = <<>>

C2_Witness ==
    /\ descriptor[1].isPrimvar /\ usdMesh[1].present
    /\ usdMesh[1].interpolation = "vertex" /\ usdMesh[1].indices = <<>>
    /\ Len(usdMesh[1].values) = 2 /\ numPositions = 2
    /\ calls[1] = <<"GetFromMesh">>
    /\ exportAttr[1].indices = <<0, 1>>

\* C4: when the scene lacks the primvar or attribute, the export attribute
\* stays empty through GetFromMesh, SetToMesh and SetPointMapEntry, the codec
\* mesh gains no attribute for it, no array is accessed, and the import of
\* that mesh writes nothing for the descriptor.
C4_AbsentOnExport ==
    \A s \in Slots :
       ( /\ s = 1
         /\ ~usdMesh[s].present
         /\ ~Occurs("GetFromRange", calls[s]) )
       => /\ exportAttr[s] = NewExportAttribute
          /\ Len(dracoMesh.attributes)
                = Cardinality({r \in Slots \ {s} : HasPointAttribute(exportAttr[r])})
          /\ phase = "export" => fault = "none"
          /\ importAttr[s].pointAttribute = 0
          /\ importAttr[s].values = <<>> /\ importAttr[s].indices = <<>>
          /\ usdOut[s] = NoPrim

C4_Witness ==
    /\ ~usdMesh[1].present
    /\ calls[1] = <<"GetFromMesh", "SetToMesh", "SetPointMapEntry">>
    /\ "SetToMesh" \in importAttr[1].done
    /\ usdOut[1] = NoPrim

\* The codec attribute an import attribute located.
Located(s) == dracoMesh.attributes[importAttr[s].pointAttribute]

Present(s) == importAttr[s].constructed /\ importAttr[s].pointAttribute # 0

\* The pair caller has run PopulateValuesWithOrder on two located attributes.
Reconstructed ==
    /\ driver = "pair"
    /\ Present(1) /\ Present(2)
    /\ "PopulateValuesWithOrder" \in importAttr[1].done

\* The original output slot the order attribute gives point p.
OrigIndex(p) == GetMappedValue(importAttr[2], p, dracoMesh)

\* C3: on a codec mesh in which two points share one position value but have
\* two distinct original slots, PopulateValuesWithOrder stays inside the
\* value array, stores each slot a face corner refers to exactly once, and
\* leaves in each such slot the position value of the points that refer to it.
C3_DeduplicatedReconstruction ==
    ( /\ Reconstructed
      /\ \A p, q \in Points :
            OrigIndex(p) = OrigIndex(q) => Located(1).pointMap[p] = Located(1).pointMap[q]
      /\ \E p, q \in Points :
            /\ Located(1).pointMap[p] = Located(1).pointMap[q]
            /\ OrigIndex(p) # OrigIndex(q) )
    => /\ fault = "none"
       /\ \A p \in Points :
             /\ OrigIndex(p) >= 0 /\ OrigIndex(p) < Len(importAttr[1].values)
             /\ importAttr[1].writes[OrigIndex(p) + 1] = 1
             /\ importAttr[1].values[OrigIndex(p) + 1]
                   = Located(1).values[Located(1).pointMap[p] + 1]

\* C5: an import attribute whose codec attribute is absent never makes an
\* operation fault, neither as the object called nor as the order argument,
\* and keeps its values and indices empty.
C5_AbsentIsNoOp ==
    \A s \in Slots :
       (importAttr[s].constructed /\ importAttr[s].pointAttribute = 0)
       => /\ fault # "null"
          /\ s = 1 => fault = "none"
          /\ importAttr[s].values = <<>>
          /\ importAttr[s].indices = <<>>

\* C6: in a codec mesh holding two attributes of one semantic type exported
\* under different metadata names, each import attribute resolves to the
\* attribute exported for its own descriptor, in either order of emission; a
\* descriptor without metadata name resolves to the attribute of its type.
C6_MetadataDisambiguation ==
    (driver = "pair" /\ phase = "import")
    => \A s \in Slots :
          /\ importAttr[s].pointAttribute = exportAttr[s].pointAttribute
          /\ Present(s) =>
                /\ Located(s).metadataName = descriptor[s].metadataName
                /\ Located(s).attributeType = descriptor[s].attributeType

C6_Witness ==
    /\ driver = "pair" /\ phase = "import"
    /\ descriptor[1].attributeType = descriptor[2].attributeType
    /\ descriptor[1].metadataName = "custom"
    /\ exportAttr[2].pointAttribute = 1
    /\ importAttr[1].pointAttribute = 2
    /\ importAttr[2].pointAttribute = 1

\* C7: the value array export SetToMesh wrote is read back unchanged:
\* PopulateValues returns it, and so does PopulateValuesWithOrder under an
\* order attribute made by GetFromRange over as many values, each point
\* mapped to the same index in both attributes.
C7_RoundTrip ==
    /\ ( /\ driver = "lifecycle" /\ Present(1)
          /\ "PopulateValues" \in importAttr[1].done )
       => importAttr[1].values = exportAttr[1].values
    /\ ( /\ Reconstructed
          /\ Len(Located(2).values) = Len(Located(1).values)
          /\ \A p \in Points : Located(1).pointMap[p] = Located(2).pointMap[p] )
       => /\ fault = "none"
          /\ importAttr[1].values = exportAttr[1].values

\* C8: when SetToMesh writes a located, populated attribute, its value array
\* is as long as the codec attribute, its index array as long as the size
\* last passed to ResizeIndices, and every index is an offset into the values.
C8_ImportInvariant ==
    ( /\ driver = "lifecycle" /\ Present(1)
      /\ "PopulateValues" \in importAttr[1].done
      /\ "SetToMesh" \in importAttr[1].done )
    => /\ Len(importAttr[1].values) = Len(Located(1).values)
       /\ Len(importAttr[1].indices) = importAttr[1].resized
       /\ \A i \in 1 .. Len(importAttr[1].indices) :
             /\ importAttr[1].indices[i] >= 0
             /\ importAttr[1].indices[i] < Len(importAttr[1].values)

\* C9: SetToMesh on a located attribute creates, for a primvar descriptor, a
\* primvar of the descriptor's name and value type with the values, the
\* index array and face-varying interpolation, whatever the interpolation of
\* the exported primvar; for a plain descriptor, an attribute with the values
\* and no index array.
C9_SetToMeshShape ==
    (Present(1) /\ "SetToMesh" \in importAttr[1].done)
    => LET d == descriptor[1]
           out == usdOut[1]
       IN  /\ out.name = d.name /\ out.valueType = d.valueType
           /\ out.values = importAttr[1].values
           /\ IF d.isPrimvar
              THEN /\ out.kind = "primvar"
                   /\ out.hasIndices /\ out.indices = importAttr[1].indices
                   /\ out.interpolation = "faceVarying"
              ELSE /\ out.kind = "attribute"
                   /\ ~out.hasIndices

C9_Witness ==
    /\ Present(1) /\ "SetToMesh" \in importAttr[1].done
    /\ descriptor[1].isPrimvar
    /\ usdMesh[1].interpolation = "vertex"
    /\ usdOut[1].interpolation = "faceVarying"
    /\ usdOut[1].values # <<>> /\ usdOut[1].indices # <<>>

\* C10: on an attribute populated by GetFromMesh and emitted by SetToMesh,
\* SetPointMapEntry with positionIndex < numPositions and cornerIndex below
\* the corner count reads the index array inside its bounds.
C10_IndexReadInBounds ==
    \A s \in Slots :
       ( /\ phase = "export"
         /\ Len(calls[s]) >= 2
         /\ calls[s][1] = "GetFromMesh" /\ calls[s][2] = "SetToMesh"
         /\ \A i \in 3 .. Len(calls[s]) : calls[s][i] = "SetPointMapEntry" )
       => fault = "none"

\* The export attribute of slot s has been cleared and no call followed.
JustCleared(s) == calls[s] # <<>> /\ calls[s][Len(calls[s])] = "Clear"

C11_LifecycleState ==
    \A s \in Slots :
       /\ HasPointAttribute(exportAttr[s]) <=> emitted[s]
       /\ JustCleared(s) => exportAttr[s] = NewExportAttribute
       /\ ( Occurs("Clear", calls[s]) /\ SinceClear(calls[s]) = <<"GetFromMesh">> )
          => exportAttr[s] = GetFromMesh(NewExportAttribute, descriptor[s],
                                         usdMesh[s], numPositions)
       /\ ( Occurs("Clear", calls[s]) /\ SinceClear(calls[s]) = <<"GetFromRange">> )
          => exportAttr[s] = GetFromRange(NewExportAttribute,
                                          Len(exportAttr[s].values))

C11_MapEntryStep ==
    \A s \in Slots :
       ( /\ Occurs("Clear", calls[s])
         /\ ~emitted[s]
         /\ calls'[s] = Append(calls[s], "SetPointMapEntry") )
       => /\ dracoMesh' = dracoMesh
          /\ exportAttr' = exportAttr
          /\ fault' = fault

\* C11: over any sequence of GetFromMesh, GetFromRange, SetToMesh and Clear
\* calls, HasPointAttribute() is true exactly when a SetToMesh with a
\* non-empty value array has run since construction or the last Clear;
\* Clear returns the attribute to the freshly-constructed state, so a
\* populate call after it yields what it yields on a new object (no values,
\* indices or interpolation flag carried over), and a SetPointMapEntry call
\* made after a Clear and before the next emitting SetToMesh changes nothing.
C11_ExportLifecycle == []C11_LifecycleState /\ [][C11_MapEntryStep]_vars

C11_Witness ==
    /\ driver = "reuse"
    /\ descriptor[1].isPrimvar
    /\ usdMesh[1].present /\ usdMesh[1].interpolation = "vertex"
    /\ exportAttr[1] = NewExportAttribute
    /\ calls[1] = <<"GetFromMesh", "SetToMesh", "Clear", "SetPointMapEntry">>
    /\ Len(dracoMesh.attributes) = 1
    /\ ~HasPointAttribute(exportAttr[1])
    /\ fault = "none"

====
